---- MODULE Spec2Model ----
(***************************************************************************)
(* Model of picasso/clusterer.py: the local-maxima clusterer (_cluster),   *)
(* the frame-analysis filter (frame_analysis, _frame_analysis) and the     *)
(* cluster-center aggregator (save_cluster_centers, cluster_center,        *)
(* error_sums_wtd).                                                        *)
(*                                                                         *)
(* Three specifications share the variables:                               *)
(*   Spec     - _cluster with frame = None                                 *)
(*   SpecFA   - frame_analysis applied repeatedly to a label array         *)
(*   SpecAgg  - save_cluster_centers applied to a labelled point table     *)
(* Point indices are 0-based as in the source (line 186 tests j == 0).     *)
(***************************************************************************)
EXTENDS Integers, Sequences, FiniteSets, TLC

VARIABLES
    pc,         \* position in the operation being run
    X,          \* _cluster: coordinates of each point (n_points x 2)
    radius2,    \* _cluster: squared clustering radius
    min_locs,   \* _cluster: minimum number of localizations
    neighbors,  \* _cluster: neighbors[i], the points within radius of i
    lm,         \* _cluster: lm[i] = 1 iff i is a local maximum
    labels,     \* cluster label of each point (-1 = no cluster)
    count,      \* _cluster: enumerate() position in lm_idx
    visited,    \* _cluster: entries of neighbors[i] already iterated over
    frame,      \* frame_analysis: frame number of each localization
    history,    \* frame_analysis: the label arrays handed to each pass
    passes,     \* frame_analysis: number of passes applied
    locs,       \* save_cluster_centers: the point table
    hasz,       \* save_cluster_centers: the table has a z column
    outcome,    \* save_cluster_centers: "none", "returned" or the exception
    centers     \* save_cluster_centers: the returned records

vars == <<pc, X, radius2, min_locs, neighbors, lm, labels, count, visited,
          frame, history, passes, locs, hasz, outcome, centers>>

clusterVars == <<X, radius2, min_locs, neighbors, lm, count, visited>>
faVars == <<frame, history, passes>>
aggVars == <<locs, hasz, outcome, centers>>

(***************************************************************************)
(* Bounds                                                                  *)
(***************************************************************************)
NPoints == 4
MaxMinLocs == 2

Points == 0 .. (NPoints - 1)

\* points lie on a 3 x 2 grid of integer positions (several points may
\* share a position); the radius is the grid spacing
Grid == (0 .. 2) \X (0 .. 1)
Radii2 == {1}

(***************************************************************************)
(* Helpers                                                                 *)
(***************************************************************************)
SetMax(S) == CHOOSE m \in S : \A k \in S : k <= m

SetMin(S) == CHOOSE m \in S : \A k \in S : m <= k

RECURSIVE SortedSeq(_)
SortedSeq(S) ==
    IF S = {} THEN << >>
    ELSE LET m == SetMin(S) IN <<m>> \o SortedSeq(S \ {m})

(***************************************************************************)
(* _cluster, lines 161-165: KDTree(X).query_ball_tree(tree, radius).       *)
(* neighbors[i] holds every j with distance(i, j) <= radius, i included.   *)
(* The order of a list is the tree's traversal order; it is left open here *)
(* and chosen entry by entry when the list is iterated (VisitNeighbor).    *)
(***************************************************************************)
Dist2(coords, i, j) ==
    (coords[i][1] - coords[j][1]) * (coords[i][1] - coords[j][1])
    + (coords[i][2] - coords[j][2]) * (coords[i][2] - coords[j][2])

query_ball_tree(coords, r2) ==
    [i \in Points |-> {j \in Points : Dist2(coords, i, j) <= r2}]

(***************************************************************************)
(* _cluster, lines 169-176: local maxima.                                  *)
(***************************************************************************)
IsLocalMaximum(i) ==
    LET idx == neighbors[i]
        n == Cardinality(idx)
    IN  /\ n > min_locs
        /\ n = SetMax({Cardinality(neighbors[k]) : k \in idx})

FindLocalMaxima ==
    /\ pc = "find_lm"
    /\ lm' = [i \in Points |-> IF IsLocalMaximum(i) THEN 1 ELSE 0]
    /\ labels' = [i \in Points |-> -1]
    /\ count' = 0
    /\ visited' = {}
    /\ pc' = "propagate"
    /\ UNCHANGED <<X, radius2, min_locs, neighbors>>
    /\ UNCHANGED faVars
    /\ UNCHANGED aggVars

(***************************************************************************)
(* _cluster, lines 181-191: label propagation.                             *)
(***************************************************************************)
lm_idx == SortedSeq({i \in Points : lm[i] = 1})

\* body of the inner loop (lines 185-191) for local maximum i, neighbor j
VisitNoAdopt(lab, i, j, cnt) ==
    IF lab[i] = -1
    THEN LET l1 == IF j = 0 THEN [lab EXCEPT ![i] = cnt] ELSE lab
         IN  [l1 EXCEPT ![j] = cnt]
    ELSE lab

VisitPerComponent(lab, i, j, cnt) ==
    LET used == {lab[p] : p \in Points} \ {-1}
        c == IF used = {} THEN 0 ELSE SetMax(used) + 1
    IN  IF lab[i] = -1
        THEN LET l1 == IF j = 0 THEN [lab EXCEPT ![i] = c] ELSE lab
             IN  [l1 EXCEPT ![j] = c]
        ELSE IF lab[j] = -1 THEN [lab EXCEPT ![j] = lab[i]] ELSE lab

Visit(lab, i, j, cnt) ==
    IF lab[i] = -1
    THEN LET l1 == IF j = 0 THEN [lab EXCEPT ![i] = cnt] ELSE lab
         IN  [l1 EXCEPT ![j] = cnt]
    ELSE IF lab[j] = -1 THEN [lab EXCEPT ![j] = lab[i]] ELSE lab

\* one iteration of "for j in neighbors[i]" (line 184)
VisitNeighbor ==
    /\ pc = "propagate"
    /\ count < Len(lm_idx)
    /\ LET i == lm_idx[count + 1] IN
       \E j \in neighbors[i] \ visited :
          /\ labels' = Visit(labels, i, j, count)
          /\ visited' = visited \cup {j}
    /\ UNCHANGED <<pc, X, radius2, min_locs, neighbors, lm, count>>
    /\ UNCHANGED faVars
    /\ UNCHANGED aggVars

\* neighbors[i] is exhausted: next (count, i) of enumerate(lm_idx) (line 183)
NextLocalMaximum ==
    /\ pc = "propagate"
    /\ count < Len(lm_idx)
    /\ neighbors[lm_idx[count + 1]] \ visited = {}
    /\ count' = count + 1
    /\ visited' = {}
    /\ UNCHANGED <<pc, X, radius2, min_locs, neighbors, lm, labels>>
    /\ UNCHANGED faVars
    /\ UNCHANGED aggVars

\* lm_idx is exhausted; frame is None, so labels is returned (lines 193-196)
ReturnLabels ==
    /\ pc = "propagate"
    /\ count = Len(lm_idx)
    /\ pc' = "done"
    /\ UNCHANGED <<X, radius2, min_locs, neighbors, lm, labels, count, visited>>
    /\ UNCHANGED faVars
    /\ UNCHANGED aggVars

NoFA == /\ frame = << >>
        /\ history = << >>
        /\ passes = 0

NoAgg == /\ locs = << >>
         /\ hasz = FALSE
         /\ outcome = "none"
         /\ centers = << >>

NoCluster == /\ X = << >>
             /\ radius2 = 0
             /\ min_locs = 0
             /\ neighbors = << >>
             /\ lm = << >>
             /\ count = 0
             /\ visited = {}

Init ==
    /\ pc = "find_lm"
    /\ X \in [Points -> Grid]
    /\ radius2 \in Radii2
    /\ min_locs \in 0 .. MaxMinLocs
    /\ neighbors = query_ball_tree(X, radius2)
    /\ lm = [i \in Points |-> 0]
    /\ labels = [i \in Points |-> -1]
    /\ count = 0
    /\ visited = {}
    /\ NoFA
    /\ NoAgg

Next ==
    \/ FindLocalMaxima
    \/ VisitNeighbor
    \/ NextLocalMaximum
    \/ ReturnLabels

Spec == Init /\ [][Next]_vars

(***************************************************************************)
(* Properties of _cluster (specification Spec)                             *)
(***************************************************************************)
UsedLabels == {labels[p] : p \in Points} \ {-1}

Members(l) == {p \in Points : labels[p] = l}

LMSet == {i \in Points : lm[i] = 1}

RECURSIVE LMChain(_, _)
LMChain(S, k) ==
    IF k = 0 THEN S
    ELSE LMChain(S \cup {b \in LMSet : \E a \in S : b \in neighbors[a]}, k - 1)

\* C1: in the returned label array every non-negative label is carried by
\* strictly more than min_locs points.
C1_ClusterSizeAboveMinLocs ==
    pc = "done" => \A l \in UsedLabels : Cardinality(Members(l)) > min_locs

\* C2: after propagation, local maxima that are neighbors of each other,
\* directly or through a chain of local maxima, carry the same label.
C2_NeighboringMaximaMerged ==
    pc = "done" =>
        \A a \in LMSet : \A b \in LMChain({a}, NPoints) :
            /\ labels[a] >= 0
            /\ labels[a] = labels[b]

\* C3: a propagation step never changes the label of a point that already
\* has a non-negative label.
C3_LabelledPointUntouched ==
    [][pc = "propagate" =>
        \A p \in Points : labels[p] >= 0 => labels'[p] = labels[p]]_vars

\* C4 (as claimed): the label values in use in the labeler's output are
\* exactly 0 .. k-1 for some k, with no gaps.
C4_LabelsContiguous ==
    pc = "done" => UsedLabels = 0 .. (Cardinality(UsedLabels) - 1)

\* C4 (amended): the counter is the position of the local maximum in
\* lm_idx: every label value c in use is below the number of local maxima
\* and is carried by the local maximum lm_idx[c] itself, and 0 is in use
\* whenever there is a local maximum (gaps are possible).
C4_LabelsAreMaximaPositions ==
    pc = "done" =>
        /\ \A c \in UsedLabels :
              /\ c < Len(lm_idx)
              /\ labels[lm_idx[c + 1]] = c
        /\ (Len(lm_idx) > 0 => 0 \in UsedLabels)

C4_Witness ==
    /\ pc = "done"
    /\ Len(lm_idx) >= 3
    /\ UsedLabels = {0, 2}

\* C10: in the labeler's output a point is labelled iff it lies in the
\* neighbor list of a local maximum (a local maximum is in its own list),
\* and no propagation step sets a label back to -1.
C10_LabelledIffNearMaximum ==
    /\ [](pc = "done" =>
            \A p \in Points :
                labels[p] >= 0 <=> \E i \in LMSet : p \in neighbors[i])
    /\ [][\A p \in Points : labels[p] >= 0 => labels'[p] >= 0]_vars

C10_Witness ==
    /\ pc = "done"
    /\ \E p \in Points : labels[p] = -1
    /\ \E p \in Points : labels[p] >= 0 /\ lm[p] = 0
    /\ \E p \in Points : labels[p] >= 0 /\ lm[p] = 1

(***************************************************************************)
(* Frame analysis (specification SpecFA)                                   *)
(*                                                                         *)
(* Arithmetic is exact: mean < 0.2 * n_frames is 5 * sum < n * n_frames,   *)
(* and max > 0.8 * n is 5 * max > 4 * n.  numpy.histogram with bins=21 and *)
(* no range bins over [min, max] of the values it is given (widened to     *)
(* [min - 0.5, max + 0.5] when min = max); its last bin is closed.  Bin    *)
(* arithmetic is done on doubled values to stay within the integers.       *)
(* In float64 the product 0.2 * n_frames can round above n_frames / 5, so  *)
(* a group whose mean is exactly n_frames / 5 (possible from 5 members on) *)
(* can fail the range test there; the properties below do not rest on such *)
(* ties.                                                                   *)
(***************************************************************************)
NLocs == 3
MaxLabel == 1
FrameStep == 20
MaxPasses == 2

NBins == 21

Locs == 0 .. (NLocs - 1)
\* frame numbers: the start of the acquisition, two consecutive frames in
\* its middle and its end
FrameVals == {0, 1, FrameStep, FrameStep + 1, 2 * FrameStep + 1}

RECURSIVE SumOver(_, _)
SumOver(f, S) ==
    IF S = {} THEN 0
    ELSE LET p == CHOOSE q \in S : TRUE IN f[p] + SumOver(f, S \ {p})

\* bin of value v (doubled: v2) for outer edges lo2 / 2 and hi2 / 2
BinIndex(v2, lo2, hi2) ==
    IF v2 = hi2 THEN NBins - 1 ELSE ((v2 - lo2) * NBins) \div (hi2 - lo2)

\* numpy.histogram(frame.values, bins=21)[0] for the members S (line 86)
histogram(fr, S) ==
    LET mn == SetMin({fr[p] : p \in S})
        mx == SetMax({fr[p] : p \in S})
        lo2 == IF mn = mx THEN 2 * mn - 1 ELSE 2 * mn
        hi2 == IF mn = mx THEN 2 * mx + 1 ELSE 2 * mx
    IN  [b \in 0 .. (NBins - 1) |->
            Cardinality({p \in S : BinIndex(2 * fr[p], lo2, hi2) = b})]

\* _frame_analysis (lines 79-97) for the group with members S
_frame_analysis(fr, S, n_frames) ==
    LET sum == SumOver(fr, S)
        n_locs == Cardinality(S)
        locs_binned == histogram(fr, S)
        max_locs_bin == SetMax({locs_binned[b] : b \in 0 .. (NBins - 1)})
    IN  IF \/ 5 * sum < n_locs * n_frames
           \/ 5 * sum > 4 * n_locs * n_frames
           \/ 5 * max_locs_bin > 4 * n_locs
        THEN 0
        ELSE 1

\* frame_analysis (lines 123-135); the group -1 is analysed like the others
frame_analysis_clustered_max(lab, fr) ==
    LET clustered == {fr[p] : p \in {q \in Locs : lab[q] >= 0}}
        n_frames == IF clustered = {} THEN 0 ELSE SetMax(clustered)
        groups == {lab[p] : p \in Locs}
        true_cluster == [g \in groups |->
            _frame_analysis(fr, {p \in Locs : lab[p] = g}, n_frames)]
        discard == {g \in groups : true_cluster[g] = 0}
    IN  [p \in Locs |-> IF lab[p] \in discard THEN -1 ELSE lab[p]]

frame_analysis(lab, fr) ==
    LET n_frames == SetMax({fr[p] : p \in Locs})
        groups == {lab[p] : p \in Locs}
        true_cluster == [g \in groups |->
            _frame_analysis(fr, {p \in Locs : lab[p] = g}, n_frames)]
        discard == {g \in groups : true_cluster[g] = 0}
    IN  [p \in Locs |-> IF lab[p] \in discard THEN -1 ELSE lab[p]]

FrameAnalysis ==
    /\ pc = "fa"
    /\ passes < MaxPasses
    /\ history' = Append(history, labels)
    /\ labels' = frame_analysis(labels, frame)
    /\ passes' = passes + 1
    /\ UNCHANGED <<pc, frame>>
    /\ UNCHANGED clusterVars
    /\ UNCHANGED aggVars

InitFA ==
    /\ pc = "fa"
    /\ labels \in [Locs -> -1 .. MaxLabel]
    /\ frame \in [Locs -> FrameVals]
    /\ history = << >>
    /\ passes = 0
    /\ NoCluster
    /\ NoAgg

NextFA == FrameAnalysis

SpecFA == InitFA /\ [][NextFA]_vars

(***************************************************************************)
(* Properties of frame_analysis (specification SpecFA)                     *)
(***************************************************************************)
GroupOf(lab, l) == {p \in Locs : lab[p] = l}

RangeTestPassed(fr, S, n_frames) ==
    /\ 5 * SumOver(fr, S) >= Cardinality(S) * n_frames
    /\ 5 * SumOver(fr, S) <= 4 * Cardinality(S) * n_frames

\* the most populated of 21 equal bins over [0, n_frames] holds more than
\* 80 % of the members S
FullRangeBurst(fr, S, n_frames) ==
    \E b \in 0 .. (NBins - 1) :
        5 * Cardinality({p \in S :
                IF n_frames = 0 THEN b = 0
                ELSE BinIndex(2 * fr[p], 0, 2 * n_frames) = b})
            > 4 * Cardinality(S)

\* C5: a cluster whose mean frame passes the range test is rejected iff the
\* most populated of 21 equal bins over the full frame range 0 .. n_frames
\* holds more than 80 % of its members.
C5_BurstOverFullRange ==
    passes = 1 =>
        LET n_frames == SetMax({frame[p] : p \in Locs}) IN
        \A l \in 0 .. MaxLabel :
            LET S == GroupOf(history[1], l) IN
            (S # {} /\ RangeTestPassed(frame, S, n_frames)) =>
                ((\A p \in S : labels[p] = -1)
                    <=> FullRangeBurst(frame, S, n_frames))

\* C6: frame_analysis is idempotent: a second (and any later) pass returns
\* the label array the first pass returned.
C6_FrameAnalysisIdempotent ==
    passes >= 2 => \A k \in 2 .. passes : history[k] = labels

C6_Witness ==
    /\ passes = 2
    /\ history[1] # history[2]
    /\ labels = history[2]
    /\ \E p \in Locs : history[1][p] >= 0 /\ labels[p] = -1
    /\ \E p \in Locs : labels[p] >= 0

(***************************************************************************)
(* Cluster centers (specification SpecAgg)                                 *)
(*                                                                         *)
(* A row of the table carries group, frame, x, y, z, lpx and lpy; the      *)
(* columns photons, sx, sy, bg and net_gradient only enter unweighted      *)
(* means and are left out.  A float is kept as an exact fraction           *)
(* <<numerator, denominator>>; a denominator of 0 is the result of a       *)
(* numpy division by zero (nan for 0 / 0, inf otherwise), which warns but  *)
(* does not raise.                                                         *)
(***************************************************************************)
NRows == 3
MaxGroup == 1
MaxFrameAgg == 0
MaxX == 1
MaxY == 0
MaxZ == 0
MaxLpx == 2
MaxLpy == 1

Rows == 0 .. (NRows - 1)

RowVals == [group : -1 .. MaxGroup, frame : 0 .. MaxFrameAgg,
            x : 0 .. MaxX, y : 0 .. MaxY, z : 0 .. MaxZ,
            lpx : 1 .. MaxLpx, lpy : 1 .. MaxLpy]

MaxLp == IF MaxLpx > MaxLpy THEN MaxLpx ELSE MaxLpy

RECURSIVE Factorial(_)
Factorial(k) == IF k <= 1 THEN 1 ELSE k * Factorial(k - 1)

\* 1 / lp ** 2, scaled by the common factor Factorial(MaxLp) ** 2
InvSquare(lp) == (Factorial(MaxLp) \div lp) * (Factorial(MaxLp) \div lp)

\* 1 / (lpx * 2) ** 2 (line 461): a quarter of 1 / lpx ** 2, here scaled
\* by the common factor 4 * Factorial(MaxLp) ** 2
ZWeight(lpx, S) == [r \in S |-> InvSquare(lpx[r])]

IsNaN(q) == q[2] = 0 /\ q[1] = 0

RECURSIVE SumRows(_, _)
SumRows(f, S) ==
    IF S = {} THEN 0
    ELSE LET r == CHOOSE q \in S : TRUE IN f[r] + SumRows(f, S \ {r})

\* numpy.average(v, weights=w) = sum(v * w) / sum(w)
average(v, w, S) ==
    <<SumRows([r \in S |-> v[r] * w[r]], S), SumRows(w, S)>>

\* mean of a column
mean(v, S) == <<SumRows(v, S), Cardinality(S)>>

\* error_sums_wtd (line 337):
\*   (w * (x - (w * x).sum() / w.sum())**2).sum() / w.sum()
\* with W = w.sum() and S = (w * x).sum() this is
\*   sum(w * (x * W - S)**2) / W**3
error_sums_wtd(x, w, S) ==
    LET wsum == SumRows(w, S)
        wxsum == SumRows([r \in S |-> w[r] * x[r]], S)
    IN  <<SumRows([r \in S |->
                w[r] * (x[r] * wsum - wxsum) * (x[r] * wsum - wxsum)], S),
          wsum * wsum * wsum>>

\* q / k for a fraction q and an integer k
DivideBy(q, k) == <<q[1], q[2] * k>>

\* cluster_center (lines 433-494) for the group with rows S.  lpx is
\* (sqrt(lpx_sq) + sqrt(lpy_sq)) / 2 and is kept as the two radicands.
cluster_center(tbl, S, z_present) ==
    LET n == Cardinality(S)
        col(name) == [r \in S |-> tbl[r][name]]
        lpx_sq == DivideBy(error_sums_wtd(col("x"), col("lpx"), S), n - 1)
        lpy_sq == DivideBy(error_sums_wtd(col("y"), col("lpy"), S), n - 1)
        lp == [sq_x |-> lpx_sq, sq_y |-> lpy_sq,
               nan |-> IsNaN(lpx_sq) \/ IsNaN(lpy_sq)]
        common == [frame |-> mean(col("frame"), S),
                   x |-> average(col("x"),
                                 [r \in S |-> InvSquare(tbl[r].lpx)], S),
                   y |-> average(col("y"),
                                 [r \in S |-> InvSquare(tbl[r].lpy)], S),
                   lpx |-> lp, lpy |-> lp, n |-> n]
    IN  IF z_present
        THEN [raised |-> "", fields |-> 14,
              result |-> [f \in {"frame", "x", "y", "lpx", "lpy", "n",
                                 "z", "lpz"} |->
                  IF f = "z"
                  THEN average(col("z"), ZWeight(col("lpx"), S), S)
                  ELSE IF f = "lpz" THEN lp
                  ELSE common[f]]]
        \* lines 480-494: the tuple is bound to "results", and "return
        \* result" then reads a local that was never assigned
        ELSE [raised |-> "UnboundLocalError", fields |-> 0,
              result |-> << >>]

\* locs_pd.groupby(locs_pd.group) (lines 352-353): one group per distinct
\* value of the group column, -1 included, in ascending order of the key
group_keys(tbl) == SortedSeq({tbl[r].group : r \in Rows})

\* save_cluster_centers (lines 351-412): apply cluster_center to each
\* group; an exception raised for a group ends the call
SaveClusterCenters ==
    /\ pc = "agg"
    /\ LET keys == group_keys(locs)
           centers_ == [k \in 1 .. Len(keys) |->
               cluster_center(locs,
                              {r \in Rows : locs[r].group = keys[k]}, hasz)]
       IN  IF \E k \in 1 .. Len(keys) : centers_[k].raised # ""
           THEN LET k == SetMin({m \in 1 .. Len(keys) :
                                    centers_[m].raised # ""})
                IN  /\ outcome' = centers_[k].raised
                    /\ centers' = << >>
           ELSE /\ outcome' = "returned"
                /\ centers' = [k \in 1 .. Len(keys) |->
                       [schema |-> IF hasz THEN "3D" ELSE "2D",
                        rec |-> centers_[k].result]]
    /\ pc' = "done"
    /\ UNCHANGED <<locs, hasz, labels>>
    /\ UNCHANGED clusterVars
    /\ UNCHANGED faVars

InitAgg ==
    /\ pc = "agg"
    /\ locs \in [Rows -> RowVals]
    /\ hasz \in BOOLEAN
    /\ outcome = "none"
    /\ centers = << >>
    /\ labels = << >>
    /\ NoCluster
    /\ NoFA

NextAgg == SaveClusterCenters

SpecAgg == InitAgg /\ [][NextAgg]_vars

(***************************************************************************)
(* Properties of save_cluster_centers (specification SpecAgg)              *)
(***************************************************************************)
GroupRows(g) == {r \in Rows : locs[r].group = g}

ClusterIds == {locs[r].group : r \in Rows} \ {-1}

\* C7: the records a call returns are in one-to-one correspondence with the
\* distinct non-negative group values of the table; none is produced for -1.
C7_OneRecordPerCluster ==
    (pc = "done" /\ outcome = "returned") =>
        /\ Len(centers) = Cardinality(ClusterIds)
        /\ \A k \in 1 .. Len(centers) :
              centers[k].rec.n
                  = Cardinality(GroupRows(SortedSeq(ClusterIds)[k]))

\* C8: for a 2D table (no z column) in which every cluster has at least two
\* members the call returns records in the 2D schema without raising.
C8_TwoDimensionalTableAggregates ==
    (/\ pc = "done"
     /\ ~hasz
     /\ \A r \in Rows : /\ locs[r].group >= 0
                        /\ Cardinality(GroupRows(locs[r].group)) >= 2)
    => /\ outcome = "returned"
       /\ \A k \in 1 .. Len(centers) : centers[k].schema = "2D"

\* C9: a group with exactly one member makes the call fail with an error
\* instead of returning a record with a non-finite lpx / lpy.
C9_SingleMemberGroupFails ==
    (/\ pc = "done"
     /\ \E r \in Rows : Cardinality(GroupRows(locs[r].group)) = 1)
    => /\ outcome # "returned"
       /\ \A k \in 1 .. Len(centers) : ~centers[k].rec.lpx.nan

====
